---- MODULE Spec2Model ----
(***************************************************************************)
(* AnomCAT: the simulated portfolio growth engine and its persistence.     *)
(*                                                                         *)
(* src/app.js holds two variants of the application:                       *)
(*   "class"  : class AnomCAT (lines 4-433), the single-page dashboard;    *)
(*   "object" : const AnomCAT = {...} (lines 468-1058), the multi-page one.*)
(* A page runs exactly one of them; `variant` says which.                  *)
(*                                                                         *)
(* Numbers.  JavaScript numbers are modelled in fixed point:               *)
(*   - an amount is an integer count of 1e-9 BTC (a tenth of a satoshi),   *)
(*     so the threshold 0.00000001 BTC is 10;                              *)
(*   - a rate is in per mille, so monthlyReturn 0.013 is 13;               *)
(*   - Date.now() is the integer `clock`, counted in months of the         *)
(*     variant's own convention (1000*60*60*24*30 ms in the class variant, *)
(*     1000*60*60*24*DAYS_PER_MONTH ms in the object variant), so that     *)
(*     monthsElapsed is the integer clock difference;                      *)
(*   - Math.pow(1 + r, m) is computed to six decimals, rounding down.      *)
(* A value that may be NaN (the parsed deposit input) is a record          *)
(* [nan, v].  Math.random() is a nondeterministic input of the handler.    *)
(***************************************************************************)
EXTENDS Integers, Sequences, FiniteSets, TLC

VARIABLES
    variant,    \* "class" or "object": which variant of app.js the page runs
    portfolio,  \* this.portfolio
    bot,        \* object: this.bot; class: this.botActive, this.monthlyReturn, this.lastUpdate
    currency,   \* object: this.currency (the class variant shows BTC only)
    storage,    \* localStorage: key -> item
    clock,      \* Date.now()
    quota,      \* the setItem call of a save that throws QuotaExceededError (0: none does)
    currentFeed, \* class: this.currentFeed
    feed,       \* class: the children of the element feedContent, oldest first
    call,       \* the last handler that ran: its name and its result
    made,       \* history variable: the valid deposit amounts since the state was last empty
    grown       \* history variable: growth has been applied since the state was last empty

vars == <<variant, portfolio, bot, currency, storage, quota, currentFeed, feed,
          clock, call, made, grown>>

-----------------------------------------------------------------------------
(* Bounds of the model *)

MaxSteps == 3        \* months the clock advances plus valid deposits made, per run
MaxFeedDraw == 2     \* distinct events the feed generators draw, per feed mode
AGED_TICKS == 99     \* growth ticks of the returning user's stored portfolio

(* Program constants *)

SATOSHI_THRESHOLD == 10          \* 0.00000001 BTC, in units of 1e-9 BTC
DEFAULT_BTC_EUR_RATE == 45000
MONTHLY_RETURN == 13             \* 0.013, in per mille
HISTORY_LIMIT == 100             \* "Keep only last 100 data points"
TRADES_LIMIT == 100              \* object variant: "Keep only last 100 transactions"
TRADES_LIMIT_class == 50         \* class variant: "Keep only last 50 trades"
FEED_LIMIT == 10                 \* class variant: "Keep only last 10 items"

-----------------------------------------------------------------------------
(* JavaScript values *)

Num(n) == [nan |-> FALSE, v |-> n]
NaN == [nan |-> TRUE, v |-> 0]
isNaN(x) == x.nan

\* isNaN(amount) || amount <= 0: the test both deposit handlers make.
invalidAmount_strict(amount) == isNaN(amount) \/ amount.v < 0
invalidAmount(amount) == isNaN(amount) \/ amount.v <= 0

\* Math.pow(1 + rate, months), times 1e6, rounded down after each factor.
RECURSIVE pow(_, _)
pow(rate, months) ==
    IF months <= 0 THEN 1000000
    ELSE (pow(rate, months - 1) * (1000 + rate)) \div 1000

\* balance * (Math.pow(1 + rate, months) - 1)
\* (= balance * Math.pow(1 + rate, months) - balance in the class variant)
Growth(balance, rate, months) ==
    (balance * (pow(rate, months) - 1000000)) \div 1000000

\* String(n) of a non-negative integer: its decimal digits.
RECURSIVE Digits(_)
Digits(n) == IF n < 10 THEN <<n>> ELSE Append(Digits(n \div 10), n % 10)

\* parseInt(s) of a string of decimal digits.
RECURSIVE parseInt(_)
parseInt(d) ==
    IF Len(d) = 0 THEN 0
    ELSE 10 * parseInt(SubSeq(d, 1, Len(d) - 1)) + d[Len(d)]

-----------------------------------------------------------------------------
(* localStorage.  An item is null (no such key) or a string; a string is   *)
(* the JSON text of a value (kind "json"), the decimal digits of a number  *)
(* (kind "digits"), or some other text.                                     *)

NoItem == [kind |-> "null", val |-> <<>>]
JSONstringify(v) == [kind |-> "json", val |-> v]
Text(t) == [kind |-> "text", val |-> t]
\* String(n) of a non-negative integer
String(n) == [kind |-> "digits", val |-> Digits(n)]
Garbage == Text("{garbage")

\* if (item): the item exists (and is not the empty string).
Truthy(item) == item.kind # "null"
\* JSON.parse(item) throws a SyntaxError.
ParseThrows(item) == item.kind # "json"
JSONparse(item) == item.val

KEYS == {"anomcat_portfolio", "anomcat_bot", "anomcat_currency"}
KEYS_class == {"anomcat_portfolio", "anomcat_bot_active", "anomcat_last_update"}

EmptyStore(v) == [k \in (IF v = "class" THEN KEYS_class ELSE KEYS) |-> NoItem]

\* setItem calls of one saveToStorage: call number failAt throws
\* (QuotaExceededError) and the calls after it do not run; 0: none throws.
Written(failAt, i) == failAt = 0 \/ i < failAt

-----------------------------------------------------------------------------
(* The object variant: const AnomCAT = {...}.  A state s of the application *)
(* is [portfolio, bot, currency, storage].                                  *)

\* The object literal, evaluated at time now, over the browser's store.
AnomCAT(now, store) ==
    [ portfolio |-> [btcBalance |-> 0, eurBalance |-> 0, initialBtc |-> 0,
                     history |-> <<>>, trades |-> <<>>],
      bot |-> [active |-> FALSE, monthlyReturn |-> MONTHLY_RETURN, lastUpdate |-> now],
      currency |-> "BTC",
      storage |-> store ]

btcToEur(btcValue) == btcValue * DEFAULT_BTC_EUR_RATE

\* One try block around the three reads: a JSON.parse that throws ends it.
loadFromStorage_noCurrency(s) ==
    LET p == s.storage["anomcat_portfolio"]
        b == s.storage["anomcat_bot"]
        s1 == IF Truthy(p) THEN [s EXCEPT !.portfolio = JSONparse(p)] ELSE s
        s2 == IF Truthy(b) THEN [s1 EXCEPT !.bot = JSONparse(b)] ELSE s1
    IN  IF Truthy(p) /\ ParseThrows(p) THEN s
        ELSE IF Truthy(b) /\ ParseThrows(b) THEN s1
        ELSE s2
loadFromStorage(s) ==
    LET p == s.storage["anomcat_portfolio"]
        b == s.storage["anomcat_bot"]
        c == s.storage["anomcat_currency"]
        s1 == IF Truthy(p) THEN [s EXCEPT !.portfolio = JSONparse(p)] ELSE s
        s2 == IF Truthy(b) THEN [s1 EXCEPT !.bot = JSONparse(b)] ELSE s1
        s3 == IF Truthy(c) THEN [s2 EXCEPT !.currency = c.val] ELSE s2
    IN  IF Truthy(p) /\ ParseThrows(p) THEN s
        ELSE IF Truthy(b) /\ ParseThrows(b) THEN s1
        ELSE s3

\* The setItem calls are in one try block, whose catch only logs.
saveToStorage_rollsBack(s, failAt) ==
    LET saved == [s EXCEPT !.storage =
            [k \in KEYS |->
                IF k = "anomcat_portfolio" /\ Written(failAt, 1) THEN JSONstringify(s.portfolio)
                ELSE IF k = "anomcat_bot" /\ Written(failAt, 2) THEN JSONstringify(s.bot)
                ELSE IF k = "anomcat_currency" /\ Written(failAt, 3) THEN Text(s.currency)
                ELSE s.storage[k]]]
    IN  IF failAt = 0 THEN saved ELSE loadFromStorage(saved)
saveToStorage(s, failAt) ==
    [s EXCEPT !.storage =
        [k \in KEYS |->
            IF k = "anomcat_portfolio" /\ Written(failAt, 1) THEN JSONstringify(s.portfolio)
            ELSE IF k = "anomcat_bot" /\ Written(failAt, 2) THEN JSONstringify(s.bot)
            ELSE IF k = "anomcat_currency" /\ Written(failAt, 3) THEN Text(s.currency)
            ELSE s.storage[k]]]

\* removeItem does not throw.
clearStorage_keepsBot(s, now) ==
    AnomCAT(now, [k \in KEYS |-> IF k = "anomcat_bot" THEN s.storage[k] ELSE NoItem])
clearStorage(s, now) ==
    AnomCAT(now, [k \in KEYS |-> NoItem])

\* The state after the call, and whether the currency changed (the
\* currencyChanged event is dispatched).
setCurrency_noGuard(s, c, failAt) ==
    [state |-> saveToStorage([s EXCEPT !.currency = c], failAt), changed |-> TRUE]
setCurrency_unsaved(s, c, failAt) ==
    IF c = s.currency THEN [state |-> s, changed |-> FALSE]
    ELSE [state |-> [s EXCEPT !.currency = c], changed |-> TRUE]
setCurrency(s, c, failAt) ==
    IF c = s.currency THEN [state |-> s, changed |-> FALSE]
    ELSE [state |-> saveToStorage([s EXCEPT !.currency = c], failAt), changed |-> TRUE]

\* random: Math.random() > 0.4
addTransaction_loss(s, type, amount, now, random, failAt) ==
    LET transaction == [id |-> now, time |-> now, type |-> type, amount |-> amount,
                        profit |-> IF type = "trade"
                                   THEN (IF random THEN "true" ELSE "false")
                                   ELSE "null"]
        unshifted == <<transaction>> \o s.portfolio.trades
        trades == IF Len(unshifted) > TRADES_LIMIT
                  THEN SubSeq(unshifted, 1, TRADES_LIMIT)
                  ELSE unshifted
        balance == IF transaction.profit = "false"
                   THEN s.portfolio.btcBalance - amount
                   ELSE s.portfolio.btcBalance
    IN  saveToStorage([s EXCEPT !.portfolio.trades = trades,
                                !.portfolio.btcBalance = balance], failAt)
addTransaction(s, type, amount, now, random, failAt) ==
    LET transaction == [id |-> now, time |-> now, type |-> type, amount |-> amount,
                        profit |-> IF type = "trade"
                                   THEN (IF random THEN "true" ELSE "false")
                                   ELSE "null"]
        unshifted == <<transaction>> \o s.portfolio.trades
        trades == IF Len(unshifted) > TRADES_LIMIT
                  THEN SubSeq(unshifted, 1, TRADES_LIMIT)
                  ELSE unshifted
    IN  saveToStorage([s EXCEPT !.portfolio.trades = trades], failAt)

\* "if (this.portfolio.initialBtc === 0) ... else ...": the portfolio credited
\* with the amount a.
credit_overwrites(p, a, now) ==
    [p EXCEPT !.initialBtc = a, !.btcBalance = a,
              !.history = <<[time |-> now, value |-> a]>>]
credit_addsInitial(p, a, now) ==
    IF p.initialBtc = 0
    THEN [p EXCEPT !.initialBtc = a, !.btcBalance = a,
                   !.history = <<[time |-> now, value |-> a]>>]
    ELSE [p EXCEPT !.btcBalance = @ + a, !.initialBtc = @ + a]
credit(p, a, now) ==
    IF p.initialBtc = 0
    THEN [p EXCEPT !.initialBtc = a, !.btcBalance = a,
                   !.history = <<[time |-> now, value |-> a]>>]
    ELSE [p EXCEPT !.btcBalance = @ + a]

\* The state after the call and the value returned.
deposit_noRecord(s, btcAmount, now, failAt) ==
    IF invalidAmount(btcAmount) THEN [state |-> s, ret |-> FALSE]
    ELSE
        LET a == btcAmount.v
            p1 == credit(s.portfolio, a, now)
            p2 == [p1 EXCEPT !.eurBalance = btcToEur(p1.btcBalance)]
            s1 == [s EXCEPT !.portfolio = p2, !.bot.active = TRUE, !.bot.lastUpdate = now]
        IN  [state |-> saveToStorage(s1, failAt), ret |-> TRUE]
deposit(s, btcAmount, now, failAt) ==
    IF invalidAmount(btcAmount) THEN [state |-> s, ret |-> FALSE]
    ELSE
        LET a == btcAmount.v
            p1 == credit(s.portfolio, a, now)
            p2 == [p1 EXCEPT !.eurBalance = btcToEur(p1.btcBalance)]
            s1 == [s EXCEPT !.portfolio = p2, !.bot.active = TRUE, !.bot.lastUpdate = now]
            s2 == addTransaction(s1, "deposit", a, now, FALSE, failAt)
        IN  [state |-> saveToStorage(s2, failAt), ret |-> TRUE]

\* The body of "if (growth > SATOSHI_THRESHOLD)".  rnd: the Math.random()
\* draws: trade (> 0.7), pct (the trade's share of the balance, in per cent),
\* profit (> 0.4).
applyGrowth_dropsNewest(s, growth, now, rnd, failAt) ==
    LET balance == s.portfolio.btcBalance + growth
        pushed == Append(s.portfolio.history, [time |-> now, value |-> balance])
        history == IF Len(pushed) > HISTORY_LIMIT
                   THEN SubSeq(pushed, 1, HISTORY_LIMIT) ELSE pushed
        s1 == [s EXCEPT !.portfolio.btcBalance = balance,
                        !.portfolio.eurBalance = btcToEur(balance),
                        !.bot.lastUpdate = now,
                        !.portfolio.history = history]
        s2 == IF rnd.trade
              THEN addTransaction(s1, "trade", (balance * rnd.pct) \div 100,
                                  now, rnd.profit, failAt)
              ELSE s1
    IN  saveToStorage(s2, failAt)
applyGrowth_unshifts(s, growth, now, rnd, failAt) ==
    LET balance == s.portfolio.btcBalance + growth
        unshifted == <<[time |-> now, value |-> balance]>> \o s.portfolio.history
        history == IF Len(unshifted) > HISTORY_LIMIT
                   THEN SubSeq(unshifted, 1, HISTORY_LIMIT) ELSE unshifted
        s1 == [s EXCEPT !.portfolio.btcBalance = balance,
                        !.portfolio.eurBalance = btcToEur(balance),
                        !.bot.lastUpdate = now,
                        !.portfolio.history = history]
        s2 == IF rnd.trade
              THEN addTransaction(s1, "trade", (balance * rnd.pct) \div 100,
                                  now, rnd.profit, failAt)
              ELSE s1
    IN  saveToStorage(s2, failAt)
applyGrowth_staleValue(s, growth, now, rnd, failAt) ==
    LET balance == s.portfolio.btcBalance + growth
        pushed == Append(s.portfolio.history,
                         [time |-> now, value |-> s.portfolio.btcBalance])
        history == IF Len(pushed) > HISTORY_LIMIT THEN Tail(pushed) ELSE pushed
        s1 == [s EXCEPT !.portfolio.btcBalance = balance,
                        !.portfolio.eurBalance = btcToEur(balance),
                        !.bot.lastUpdate = now,
                        !.portfolio.history = history]
        s2 == IF rnd.trade
              THEN addTransaction(s1, "trade", (balance * rnd.pct) \div 100,
                                  now, rnd.profit, failAt)
              ELSE s1
    IN  saveToStorage(s2, failAt)
applyGrowth(s, growth, now, rnd, failAt) ==
    LET balance == s.portfolio.btcBalance + growth
        pushed == Append(s.portfolio.history, [time |-> now, value |-> balance])
        history == IF Len(pushed) > HISTORY_LIMIT THEN Tail(pushed) ELSE pushed
        s1 == [s EXCEPT !.portfolio.btcBalance = balance,
                        !.portfolio.eurBalance = btcToEur(balance),
                        !.bot.lastUpdate = now,
                        !.portfolio.history = history]
        s2 == IF rnd.trade
              THEN addTransaction(s1, "trade", (balance * rnd.pct) \div 100,
                                  now, rnd.profit, failAt)
              ELSE s1
    IN  saveToStorage(s2, failAt)

updatePortfolio_ignoresActive(s, now, rnd, failAt) ==
    IF s.portfolio.btcBalance <= 0 THEN s
    ELSE
        LET elapsed == now - s.bot.lastUpdate
            growth == Growth(s.portfolio.btcBalance, s.bot.monthlyReturn, elapsed)
        IN  IF growth > SATOSHI_THRESHOLD
            THEN applyGrowth(s, growth, now, rnd, failAt)
            ELSE s
updatePortfolio_stampsLastUpdate(s, now, rnd, failAt) ==
    IF ~s.bot.active \/ s.portfolio.btcBalance <= 0 THEN s
    ELSE
        LET elapsed == now - s.bot.lastUpdate
            growth == Growth(s.portfolio.btcBalance, s.bot.monthlyReturn, elapsed)
        IN  IF growth > SATOSHI_THRESHOLD
            THEN applyGrowth(s, growth, now, rnd, failAt)
            ELSE [s EXCEPT !.bot.lastUpdate = now]
updatePortfolio_perTick(s, now, rnd, failAt) ==
    IF ~s.bot.active \/ s.portfolio.btcBalance <= 0 THEN s
    ELSE
        LET growth == Growth(s.portfolio.btcBalance, s.bot.monthlyReturn,
                             IF now > s.bot.lastUpdate THEN 1 ELSE 0)
        IN  IF growth > SATOSHI_THRESHOLD
            THEN applyGrowth(s, growth, now, rnd, failAt)
            ELSE s
updatePortfolio(s, now, rnd, failAt) ==
    IF ~s.bot.active \/ s.portfolio.btcBalance <= 0 THEN s
    ELSE
        LET elapsed == now - s.bot.lastUpdate
            growth == Growth(s.portfolio.btcBalance, s.bot.monthlyReturn, elapsed)
        IN  IF growth > SATOSHI_THRESHOLD
            THEN applyGrowth(s, growth, now, rnd, failAt)
            ELSE s

\* AnomCAT.init on a page load: the object literal, then loadFromStorage.
init(now, store) == loadFromStorage(AnomCAT(now, store))

-----------------------------------------------------------------------------
(* The class variant: class AnomCAT.  The fields botActive, monthlyReturn   *)
(* and lastUpdate of the instance are the record bot; the variant has no    *)
(* currency preference, its display is in BTC.                              *)

\* The constructor's assignments, at time now, over the browser's store.
AnomCAT_class(now, store) ==
    [ portfolio |-> [initial |-> 0, current |-> 0, history |-> <<>>, trades |-> <<>>],
      bot |-> [active |-> FALSE, monthlyReturn |-> MONTHLY_RETURN, lastUpdate |-> now],
      currency |-> "BTC",
      storage |-> store ]

\* setItem(key, this.botActive) and setItem(key, this.lastUpdate) store
\* String(value).
saveToStorage_class(s, failAt) ==
    [s EXCEPT !.storage =
        [k \in KEYS_class |->
            IF k = "anomcat_portfolio" /\ Written(failAt, 1) THEN JSONstringify(s.portfolio)
            ELSE IF k = "anomcat_bot_active" /\ Written(failAt, 2)
                THEN Text(IF s.bot.active THEN "true" ELSE "false")
            ELSE IF k = "anomcat_last_update" /\ Written(failAt, 3)
                THEN String(s.bot.lastUpdate)
            ELSE s.storage[k]]]

\* One try block around the three reads; only JSON.parse can throw.
loadFromStorage_class_strictTrue(s) ==
    LET p == s.storage["anomcat_portfolio"]
        a == s.storage["anomcat_bot_active"]
        u == s.storage["anomcat_last_update"]
        s1 == IF Truthy(p) THEN [s EXCEPT !.portfolio = JSONparse(p)] ELSE s
        s2 == IF a.kind # "null" THEN [s1 EXCEPT !.bot.active = FALSE] ELSE s1
        s3 == IF Truthy(u) THEN [s2 EXCEPT !.bot.lastUpdate = parseInt(u.val)] ELSE s2
    IN  IF Truthy(p) /\ ParseThrows(p) THEN s ELSE s3
loadFromStorage_class(s) ==
    LET p == s.storage["anomcat_portfolio"]
        a == s.storage["anomcat_bot_active"]
        u == s.storage["anomcat_last_update"]
        s1 == IF Truthy(p) THEN [s EXCEPT !.portfolio = JSONparse(p)] ELSE s
        s2 == IF a.kind # "null" THEN [s1 EXCEPT !.bot.active = (a = Text("true"))] ELSE s1
        s3 == IF Truthy(u) THEN [s2 EXCEPT !.bot.lastUpdate = parseInt(u.val)] ELSE s2
    IN  IF Truthy(p) /\ ParseThrows(p) THEN s ELSE s3

\* random: Math.random() > 0.4
simulateTrade(s, type, amount, now, random, failAt) ==
    LET trade == [time |-> now, type |-> type, amount |-> amount,
                  profit |-> IF random THEN "true" ELSE "false"]
        pushed == Append(s.portfolio.trades, trade)
        trades == IF Len(pushed) > TRADES_LIMIT_class THEN Tail(pushed) ELSE pushed
    IN  saveToStorage_class([s EXCEPT !.portfolio.trades = trades], failAt)

\* "if (this.portfolio.initial === 0) ... else ...": the portfolio credited
\* with the amount a.
credit_class(p, a, now) ==
    IF p.initial = 0
    THEN [p EXCEPT !.initial = a, !.current = a,
                   !.history = <<[time |-> now, value |-> a]>>]
    ELSE [p EXCEPT !.current = @ + a]

\* amount: parseFloat of the input field.  The state after the call, and
\* whether the alert was shown.
handleDeposit(s, amount, now, random, failAt) ==
    IF invalidAmount(amount) THEN [state |-> s, alert |-> TRUE]
    ELSE
        LET a == amount.v
            p1 == credit_class(s.portfolio, a, now)
            s1 == [s EXCEPT !.portfolio = p1, !.bot.active = TRUE, !.bot.lastUpdate = now]
            s2 == saveToStorage_class(s1, failAt)
        IN  [state |-> simulateTrade(s2, "BUY", a \div 10, now, random, failAt),
             alert |-> FALSE]

\* The body of "if (growth > 0.00000001)" in the interval callback of
\* startBot.  rnd: the Math.random() draws: trade (> 0.7), pct (the trade's
\* share of the balance, in per cent), buy (> 0.5), profit (> 0.4).
applyGrowth_class(s, growth, now, rnd, failAt) ==
    LET current == s.portfolio.current + growth
        pushed == Append(s.portfolio.history, [time |-> now, value |-> current])
        history == IF Len(pushed) > HISTORY_LIMIT THEN Tail(pushed) ELSE pushed
        s1 == [s EXCEPT !.portfolio.current = current,
                        !.bot.lastUpdate = now,
                        !.portfolio.history = history]
        s2 == saveToStorage_class(s1, failAt)
    IN  IF rnd.trade
        THEN simulateTrade(s2, IF rnd.buy THEN "BUY" ELSE "SELL",
                           (current * rnd.pct) \div 100, now, rnd.profit, failAt)
        ELSE s2

\* The interval callback of startBot.
startBot(s, now, rnd, failAt) ==
    IF s.bot.active /\ s.portfolio.current > 0 THEN
        LET elapsed == now - s.bot.lastUpdate
            growth == Growth(s.portfolio.current, s.bot.monthlyReturn, elapsed)
        IN  IF growth > SATOSHI_THRESHOLD
            THEN applyGrowth_class(s, growth, now, rnd, failAt)
            ELSE s
    ELSE s

\* The constructor: the assignments, then init's loadFromStorage.
init_class(now, store) == loadFromStorage_class(AnomCAT_class(now, store))

-----------------------------------------------------------------------------
(* The network feed of the class variant.  The element feedContent is the  *)
(* sequence of its children, oldest first; a child is [feed, text]: the    *)
(* feed mode it was generated for and the event drawn (the template and    *)
(* the random numbers put into it).  text 0 is 'Loading network data...',  *)
(* the placeholder the page may show before the first event.               *)

LoadingMessage == [feed |-> "none", text |-> 0]

\* draw: the Math.random() outcomes, as the number of the event.
generateMempoolTx(draw) == [feed |-> "mempool", text |-> draw]
generateBlock(draw) == [feed |-> "block", text |-> draw]

\* "Remove loading message if present", then appendChild.
addFeedItem(feedContent, item) ==
    IF Len(feedContent) > 0 /\ feedContent[1].text = 0
    THEN <<item>>
    ELSE Append(feedContent, item)

\* "Keep only last 10 items": items[0].remove().
updateNetworkFeed_offByOne(mode, feedContent, draw) ==
    LET item == IF mode = "mempool" THEN generateMempoolTx(draw) ELSE generateBlock(draw)
        items == addFeedItem(feedContent, item)
    IN  IF Len(items) >= FEED_LIMIT THEN Tail(items) ELSE items
updateNetworkFeed(mode, feedContent, draw) ==
    LET item == IF mode = "mempool" THEN generateMempoolTx(draw) ELSE generateBlock(draw)
        items == addFeedItem(feedContent, item)
    IN  IF Len(items) > FEED_LIMIT THEN Tail(items) ELSE items

\* The feed mode and the feed content after the call.
switchFeed(mode, draw) ==
    [currentFeed |-> mode, feed |-> updateNetworkFeed(mode, <<>>, draw)]

\* The constructor's currentFeed and init's startNetworkFeed, over the
\* page's feedContent.
startNetworkFeed(feedContent, draw) ==
    [currentFeed |-> "mempool", feed |-> updateNetworkFeed("mempool", feedContent, draw)]

-----------------------------------------------------------------------------
(* The stored state of a returning user: one deposit, then a growth tick a *)
(* month, each with a synthetic trade.                                      *)

\* The tick of month n.
AgedTick(v, s, n) ==
    IF v = "class"
    THEN startBot(s, n, [trade |-> TRUE, pct |-> 1, buy |-> (n % 2 = 0),
                         profit |-> (n % 3 # 0)], 0)
    ELSE updatePortfolio(s, n, [trade |-> TRUE, pct |-> 1, profit |-> (n % 3 # 0)], 0)

\* The ticks of months lo..hi, in order.
RECURSIVE AgedTicks(_, _, _, _)
AgedTicks(v, s, lo, hi) ==
    IF lo > hi THEN s
    ELSE IF lo = hi THEN AgedTick(v, s, lo)
    ELSE LET mid == (lo + hi) \div 2
             \* (the set binds the state after the first half as a value)
         IN  CHOOSE r \in {AgedTicks(v, half, mid + 1, hi) :
                              half \in {AgedTicks(v, s, lo, mid)}} : TRUE

\* A deposit of 1000 at time from, then the ticks of the months up to n.
Aged(v, from, n) ==
    LET first == IF v = "class"
                 THEN handleDeposit(AnomCAT_class(from, EmptyStore(v)),
                                    Num(1000), from, TRUE, 0).state
                 ELSE deposit(AnomCAT(from, EmptyStore(v)), Num(1000), from, 0).state
    IN  AgedTicks(v, first, from + 1, n)

AgedStore(v) == Aged(v, 0, AGED_TICKS).storage

-----------------------------------------------------------------------------
(* The state machine *)

Variants == {"class", "object"}
DepositInputs == {NaN, Num(-5), Num(0), Num(500), Num(1000)}
TradePercents == {5}
Currencies == {"BTC", "EUR"}
FeedModes == {"mempool", "block"}
FeedDraws == 1 .. MaxFeedDraw

\* The feed after a page load: the class variant has drawn its first event
\* into the page's feedContent, empty or showing the placeholder; the object
\* variant has no feed.
FeedAtLoad(v, draw) ==
    IF v = "class"
    THEN {startNetworkFeed(content, draw) : content \in {<<>>, <<LoadingMessage>>}}
    ELSE {[currentFeed |-> "mempool", feed |-> <<>>]}

S == [portfolio |-> portfolio, bot |-> bot, currency |-> currency, storage |-> storage]

Becomes(s) ==
    /\ portfolio' = s.portfolio
    /\ bot' = s.bot
    /\ currency' = s.currency
    /\ storage' = s.storage

Call(op, ok) == [op |-> op, ok |-> ok]

\* The accessors of the two variants' field names.
Balance(p) == IF "current" \in DOMAIN p THEN p.current ELSE p.btcBalance
InitialDeposit(p) == IF "initial" \in DOMAIN p THEN p.initial ELSE p.initialBtc

Valid(amount) == ~amount.nan /\ amount.v > 0

\* A page load at time now over the store: the variant's construction and init.
Construct(v, now, store) ==
    IF v = "class" THEN init_class(now, store) ELSE init(now, store)

InitWith(v, store, deposits, growth) ==
    /\ variant = v
    /\ clock = AGED_TICKS
    /\ \E s \in {Construct(v, AGED_TICKS, store)} :
           /\ portfolio = s.portfolio
           /\ bot = s.bot
           /\ currency = s.currency
           /\ storage = s.storage
    /\ \E f \in FeedAtLoad(v, 1) :
           /\ currentFeed = f.currentFeed
           /\ feed = f.feed
    /\ call = Call("load", TRUE)
    /\ made = deposits
    /\ grown = growth

\* A first visit (an empty store) or a returning user's.
Init ==
    /\ quota = 0
    /\ \E v \in Variants :
           \/ InitWith(v, EmptyStore(v), <<>>, FALSE)
           \/ InitWith(v, AgedStore(v), <<1000>>, TRUE)

\* What a run has used of its bound, and the bound: one step less over a
\* store that is full.
Steps == (clock - AGED_TICKS) + Len(made)
Budget == IF quota = 0 THEN MaxSteps ELSE MaxSteps - 1

\* Time passes.
Advance ==
    /\ Steps < Budget
    /\ clock' = clock + 1
    /\ call' = Call("time", TRUE)
    /\ UNCHANGED <<currentFeed, feed, variant, portfolio, bot, currency, storage, quota, made, grown>>

Deposit(amount) ==
    /\ variant = "object"
    /\ Valid(amount) => Steps < Budget
    /\ \E r \in {deposit(S, amount, clock, quota)} :
           /\ Becomes(r.state)
           /\ call' = Call("deposit", r.ret)
    /\ made' = IF Valid(amount) THEN Append(made, amount.v) ELSE made
    /\ UNCHANGED <<currentFeed, feed, variant, quota, clock, grown>>

HandleDeposit(amount, random) ==
    /\ variant = "class"
    /\ Valid(amount) => Steps < Budget
    /\ \E r \in {handleDeposit(S, amount, clock, random, quota)} :
           /\ Becomes(r.state)
           /\ call' = Call("deposit", ~r.alert)
    /\ made' = IF Valid(amount) THEN Append(made, amount.v) ELSE made
    /\ UNCHANGED <<currentFeed, feed, variant, quota, clock, grown>>

\* The 5-second interval of startPortfolioUpdates.
UpdatePortfolio(rnd) ==
    /\ variant = "object"
    /\ \E s \in {updatePortfolio(S, clock, rnd, quota)} :
           /\ Becomes(s)
           /\ call' = Call("tick", Balance(s.portfolio) # Balance(portfolio))
           /\ grown' = (grown \/ Balance(s.portfolio) # Balance(portfolio))
    /\ UNCHANGED <<currentFeed, feed, variant, quota, clock, made>>

\* The 5-second interval of startBot.
StartBot(rnd) ==
    /\ variant = "class"
    /\ \E s \in {startBot(S, clock, rnd, quota)} :
           /\ Becomes(s)
           /\ call' = Call("tick", Balance(s.portfolio) # Balance(portfolio))
           /\ grown' = (grown \/ Balance(s.portfolio) # Balance(portfolio))
    /\ UNCHANGED <<currentFeed, feed, variant, quota, clock, made>>

SetCurrency(c) ==
    /\ variant = "object"
    /\ \E r \in {setCurrency(S, c, quota)} :
           /\ Becomes(r.state)
           /\ call' = Call("setCurrency", r.changed)
    /\ UNCHANGED <<currentFeed, feed, variant, quota, clock, made, grown>>

ClearStorage ==
    /\ variant = "object"
    /\ Becomes(clearStorage(S, clock))
    /\ call' = Call("clear", TRUE)
    /\ made' = <<>>
    /\ grown' = FALSE
    /\ UNCHANGED <<currentFeed, feed, variant, quota, clock>>

\* Navigation to a page, or a reload: a new instance over the same store.
PageLoad ==
    /\ \E s \in {Construct(variant, clock, storage)} : Becomes(s)
    /\ \E f \in FeedAtLoad(variant, 1) :
           /\ currentFeed' = f.currentFeed
           /\ feed' = f.feed
    /\ call' = Call("load", TRUE)
    /\ UNCHANGED <<variant, quota, clock, made, grown>>

Next ==
    \/ Advance
    \/ \E amount \in DepositInputs : Deposit(amount)
    \/ \E amount \in DepositInputs, random \in BOOLEAN : HandleDeposit(amount, random)
    \/ \E trade \in BOOLEAN, pct \in TradePercents, profit \in BOOLEAN :
           UpdatePortfolio([trade |-> trade, pct |-> pct, profit |-> profit])
    \/ \E trade \in BOOLEAN, pct \in TradePercents, buy \in BOOLEAN, profit \in BOOLEAN :
           StartBot([trade |-> trade, pct |-> pct, buy |-> buy, profit |-> profit])
    \/ \E c \in Currencies : SetCurrency(c)
    \/ ClearStorage
    \/ PageLoad

Spec == Init /\ [][Next]_vars

-----------------------------------------------------------------------------
(* The same program over a store that lost or garbled some of its keys     *)
(* (a setItem that threw part-way, a user or another script editing the    *)
(* store): the stored state of last month's new user, in EUR where the     *)
(* variant has the preference, each key intact, missing, or not the text   *)
(* the program wrote.                                                       *)

RecentStore(v) ==
    LET s == Aged(v, AGED_TICKS - 1, AGED_TICKS)
    IN  IF v = "class" THEN s.storage ELSE setCurrency(s, "EUR", 0).state.storage

\* The items a key may hold: the one written, none, and for a key that is
\* parsed or compared, garbage.
Items(v, k, written) ==
    {written, NoItem}
        \cup (IF k \in {"anomcat_portfolio", "anomcat_bot", "anomcat_bot_active"}
              THEN {Garbage} ELSE {})

KeyList(v) ==
    IF v = "class"
    THEN <<"anomcat_portfolio", "anomcat_bot_active", "anomcat_last_update">>
    ELSE <<"anomcat_portfolio", "anomcat_bot", "anomcat_currency">>

TamperedStores(v) ==
    LET written == RecentStore(v)
        key == KeyList(v)
    IN  { [k \in DOMAIN written |->
              IF k = key[1] THEN i1 ELSE IF k = key[2] THEN i2 ELSE i3] :
          i1 \in Items(v, key[1], written[key[1]]),
          i2 \in Items(v, key[2], written[key[2]]),
          i3 \in Items(v, key[3], written[key[3]]) }

InitTampered ==
    /\ quota = 0
    /\ \E v \in Variants :
           \E store \in TamperedStores(v) : InitWith(v, store, <<1000>>, TRUE)

SpecTampered == InitTampered /\ [][Next]_vars

-----------------------------------------------------------------------------
(* One page session of the same program over a store that is full: from   *)
(* the page load on, one setItem call of every saveToStorage throws, and   *)
(* the calls after it in the same try block do not run.                    *)

InitFailing ==
    /\ quota \in 1 .. 3
    /\ \E v \in Variants :
           \/ InitWith(v, EmptyStore(v), <<>>, FALSE)
           \/ InitWith(v, AgedStore(v), <<1000>>, TRUE)

\* The handlers that save, and the passing of time.
NextFailing ==
    \/ Advance
    \/ \E amount \in DepositInputs : Deposit(amount)
    \/ \E amount \in DepositInputs, random \in BOOLEAN : HandleDeposit(amount, random)
    \/ \E trade \in BOOLEAN, pct \in TradePercents, profit \in BOOLEAN :
           UpdatePortfolio([trade |-> trade, pct |-> pct, profit |-> profit])
    \/ \E trade \in BOOLEAN, pct \in TradePercents, buy \in BOOLEAN, profit \in BOOLEAN :
           StartBot([trade |-> trade, pct |-> pct, buy |-> buy, profit |-> profit])
    \/ \E c \in Currencies : SetCurrency(c)

SpecFailing == InitFailing /\ [][NextFailing]_vars

-----------------------------------------------------------------------------
(* The network feed of the class variant on a first visit: the 10-second   *)
(* interval of startNetworkFeed and the clicks on the feed tabs.  The feed *)
(* reads and writes nothing of the portfolio.                              *)

\* The interval callback; the result says whether the oldest item was removed.
UpdateNetworkFeed(draw) ==
    /\ variant = "class"
    /\ feed' = updateNetworkFeed(currentFeed, feed, draw)
    /\ call' = Call("feed", Len(feed) = FEED_LIMIT)
    /\ UNCHANGED <<variant, portfolio, bot, currency, storage, quota, currentFeed,
                   clock, made, grown>>

SwitchFeed(mode, draw) ==
    /\ variant = "class"
    /\ \E f \in {switchFeed(mode, draw)} :
           /\ currentFeed' = f.currentFeed
           /\ feed' = f.feed
    /\ call' = Call("switchFeed", TRUE)
    /\ UNCHANGED <<variant, portfolio, bot, currency, storage, quota, clock, made, grown>>

InitFeed ==
    /\ quota = 0
    /\ variant = "class"
    /\ clock = AGED_TICKS
    /\ \E s \in {Construct("class", AGED_TICKS, EmptyStore("class"))} :
           /\ portfolio = s.portfolio
           /\ bot = s.bot
           /\ currency = s.currency
           /\ storage = s.storage
    /\ \E draw \in FeedDraws : \E f \in FeedAtLoad("class", draw) :
           /\ currentFeed = f.currentFeed
           /\ feed = f.feed
    /\ call = Call("load", TRUE)
    /\ made = <<>>
    /\ grown = FALSE

NextFeed ==
    \/ \E draw \in FeedDraws : UpdateNetworkFeed(draw)
    \/ \E mode \in FeedModes, draw \in FeedDraws : SwitchFeed(mode, draw)

SpecFeed == InitFeed /\ [][NextFeed]_vars

-----------------------------------------------------------------------------
(* Verification *)

\* The draws of one tick (the object variant makes no buy draw).
Draws == [trade : BOOLEAN, pct : TradePercents, buy : BOOLEAN, profit : BOOLEAN]

\* The times a handler may run at, from the current state.
Times == clock .. (clock + MaxSteps)

\* The growth tick of the running variant.
Tick(s, now, rnd) ==
    IF variant = "class" THEN startBot(s, now, rnd, 0) ELSE updatePortfolio(s, now, rnd, 0)

\* The deposit handler of the running variant: the state after it, and
\* whether it accepted the amount.
DepositCall(s, amount, now, random) ==
    IF variant = "class"
    THEN LET r == handleDeposit(s, amount, now, random, 0)
         IN  [state |-> r.state, ok |-> ~r.alert]
    ELSE LET r == deposit(s, amount, now, 0)
         IN  [state |-> r.state, ok |-> r.ret]

\* C1: two valid deposits d1 then d2 from the empty state, no growth applied
\* in between, leave initialDeposit = d1 and balance = d1 + d2.
C1_TwoDeposits ==
    (Len(made) = 2 /\ ~grown) =>
        /\ InitialDeposit(portfolio) = made[1]
        /\ Balance(portfolio) = made[1] + made[2]

C1_Witness ==
    /\ call = Call("deposit", TRUE)
    /\ Len(made) = 2 /\ ~grown
    /\ made[1] # made[2]
    /\ Balance(portfolio) = made[1] + made[2]

\* C2: a deposit of NaN or of an amount <= 0 reports failure and changes
\* nothing, in memory or in the store, in every reachable state.
C2_InvalidDeposit ==
    \A amount \in DepositInputs, random \in BOOLEAN :
        ~Valid(amount) =>
            DepositCall(S, amount, clock, random) = [state |-> S, ok |-> FALSE]

\* A deposit has been refused in a state that holds a balance.
C2_Witness ==
    /\ call = Call("deposit", FALSE)
    /\ Balance(portfolio) > 0
    /\ bot.active

\* C3: with the bot inactive or the balance <= 0, a growth tick at any time
\* changes nothing, in memory or in the store.
C3_IdleTick ==
    (~bot.active \/ Balance(portfolio) <= 0) =>
        \A now \in Times, rnd \in Draws : Tick(S, now, rnd) = S

C3_Witness ==
    /\ call = Call("tick", FALSE)
    /\ ~bot.active
    /\ Balance(portfolio) > 0
    /\ clock > bot.lastUpdate

\* C4: with the bot active and the balance > 0, a tick at a time whose growth
\* does not exceed the threshold changes nothing, lastUpdate included.
C4_NoGrowthTick ==
    (bot.active /\ Balance(portfolio) > 0) =>
        \A now \in Times, rnd \in Draws :
            Growth(Balance(portfolio), bot.monthlyReturn, now - bot.lastUpdate)
                    <= SATOSHI_THRESHOLD
                => Tick(S, now, rnd) = S

C4_Witness ==
    /\ call = Call("tick", FALSE)
    /\ bot.active
    /\ Balance(portfolio) > 0
    /\ clock > bot.lastUpdate
    /\ Growth(Balance(portfolio), bot.monthlyReturn, clock - bot.lastUpdate) > 0

\* C5: no deposit, valid or not, and no tick lowers the balance (the clock
\* never runs backwards).
C5_Monotonic ==
    [][call'.op \in {"deposit", "tick"} =>
            Balance(portfolio') >= Balance(portfolio)]_vars

\* A tick has applied growth and labelled its synthetic trade unprofitable.
C5_Witness ==
    /\ call = Call("tick", TRUE)
    /\ Len(portfolio.trades) > 0
    /\ \E i \in {1, Len(portfolio.trades)} :
           /\ portfolio.trades[i].time = clock
           /\ portfolio.trades[i].profit = "false"
    /\ grown

\* The n most recent entries of a log whose newest entry is its last, and of
\* one whose newest entry is its first.
LastN(log, n) == IF Len(log) <= n THEN log ELSE SubSeq(log, Len(log) - n + 1, Len(log))
FirstN(log, n) == IF Len(log) <= n THEN log ELSE SubSeq(log, 1, n)

TradesLimit == IF variant = "class" THEN TRADES_LIMIT_class ELSE TRADES_LIMIT

\* The log after a step is the log before it, or that log with one entry
\* added as its newest and then cut to its limit most recent entries.
Fifo(old, new, limit, newestFirst) ==
    \/ new = old
    \/ /\ Len(new) > 0
       /\ IF newestFirst
          THEN new = FirstN(<<new[1]>> \o old, limit)
          ELSE new = LastN(Append(old, new[Len(new)]), limit)

\* C6: history never holds more than 100 entries and trades never more than
\* the variant's bound (100 object, 50 class); a step other than clear keeps
\* the most recent entries in their order and drops only the oldest, so the
\* entry of a tick that grew the balance is in the history after it.
C6_BoundedFifo ==
    /\ [](/\ Len(portfolio.history) <= HISTORY_LIMIT
          /\ Len(portfolio.trades) <= TradesLimit)
    /\ [][call'.op # "clear" =>
            /\ Fifo(portfolio.history, portfolio'.history, HISTORY_LIMIT, FALSE)
            /\ Fifo(portfolio.trades, portfolio'.trades, TradesLimit,
                    variant = "object")
            /\ (call'.op = "tick" /\ call'.ok) =>
                   portfolio'.history[Len(portfolio'.history)] =
                       [time |-> clock', value |-> Balance(portfolio')]]_vars

\* A tick has evicted the oldest entry of a full history and of a full
\* trade log (the deposit record), and appended its own.
C6_Witness ==
    /\ call = Call("tick", TRUE)
    /\ variant = "object"
    /\ Len(portfolio.history) = HISTORY_LIMIT
    /\ portfolio.history[1].time > 0
    /\ portfolio.history[HISTORY_LIMIT].time = clock
    /\ Len(portfolio.trades) = TRADES_LIMIT
    /\ portfolio.trades[1].time = clock
    /\ portfolio.trades[TRADES_LIMIT].type = "trade"

\* saveToStorage of the running variant, with a working store.
Save(s) ==
    IF variant = "class" THEN saveToStorage_class(s, 0) ELSE saveToStorage(s, 0)

\* C7: saving a reachable state and loading the store into a new instance,
\* made at any time, gives back the portfolio, the bot state and the
\* currency.
C7_RoundTrip ==
    \A now \in Times :
        LET loaded == Construct(variant, now, Save(S).storage)
        IN  /\ loaded.portfolio = portfolio
            /\ loaded.bot = bot
            /\ loaded.currency = currency

\* A page has loaded a stored state that differs from the defaults in every
\* record: a grown portfolio with trades, an active bot last updated in the
\* past, the EUR preference.
C7_Witness ==
    /\ call = Call("load", TRUE)
    /\ variant = "object"
    /\ Len(portfolio.history) >= 2
    /\ Len(portfolio.trades) >= 2
    /\ bot.active
    /\ bot.lastUpdate < clock
    /\ currency = "EUR"

\* The state each record has by default, at the time of construction.
Default(v, now, store) ==
    IF v = "class" THEN AnomCAT_class(now, store) ELSE AnomCAT(now, store)

\* C8: after a load, every key that is present and well-formed has been
\* loaded from the store, and every key that is missing or corrupt has kept
\* its default, each key on its own.
C8_LoadPerKey ==
    call.op = "load" =>
        LET fresh == Default(variant, clock, storage)
            p == storage["anomcat_portfolio"]
        IN  /\ portfolio = IF p.kind = "json" THEN p.val ELSE fresh.portfolio
            /\ IF variant = "class"
               THEN LET a == storage["anomcat_bot_active"]
                        u == storage["anomcat_last_update"]
                    IN  /\ bot.active = IF a = Text("true") THEN TRUE
                                        ELSE IF a = Text("false") THEN FALSE
                                        ELSE fresh.bot.active
                        /\ bot.lastUpdate = IF u.kind = "digits" THEN parseInt(u.val)
                                            ELSE fresh.bot.lastUpdate
               ELSE LET b == storage["anomcat_bot"]
                        c == storage["anomcat_currency"]
                    IN  /\ bot = IF b.kind = "json" THEN b.val ELSE fresh.bot
                        /\ currency = IF c.kind = "text" THEN c.val ELSE fresh.currency

SAfter ==
    [portfolio |-> portfolio', bot |-> bot', currency |-> currency', storage |-> storage']

\* C9: clear removes the three keys and resets the state in memory to the
\* defaults; a load after it leaves the defaults and a tick after it changes
\* nothing.
C9_Clear ==
    [][call'.op = "clear" =>
            /\ \A k \in DOMAIN storage' : storage'[k] = NoItem
            /\ portfolio' = [btcBalance |-> 0, eurBalance |-> 0, initialBtc |-> 0,
                             history |-> <<>>, trades |-> <<>>]
            /\ bot'.active = FALSE
            /\ bot'.monthlyReturn = MONTHLY_RETURN
            /\ currency' = "BTC"
            /\ loadFromStorage(SAfter) = SAfter
            /\ \A now \in Times, rnd \in Draws :
                   updatePortfolio(SAfter, now, rnd, 0) = SAfter]_vars

\* Clear has run after time had passed since the page loaded.
C9_Witness ==
    /\ call = Call("clear", TRUE)
    /\ clock > AGED_TICKS
    /\ \A k \in DOMAIN storage : storage[k] = NoItem
    /\ Balance(portfolio) = 0

\* C10: initialDeposit is 0 exactly when no valid deposit has been made since
\* the state was last empty, and once it is nonzero no deposit and no tick
\* changes it.
C10_InitialDeposit ==
    /\ [](InitialDeposit(portfolio) = 0 <=> made = <<>>)
    /\ [][(InitialDeposit(portfolio) # 0 /\ call'.op \in {"deposit", "tick"}) =>
            InitialDeposit(portfolio') = InitialDeposit(portfolio)]_vars

\* A second, different deposit has been made after growth was applied.
C10_Witness ==
    /\ call = Call("deposit", TRUE)
    /\ Len(made) = 2
    /\ grown
    /\ made[2] # made[1]
    /\ InitialDeposit(portfolio) = made[1]
    /\ Balance(portfolio) > made[1] + made[2]

\* C11: in every reachable state the history is in timestamp order: no
\* entry is older than the entry before it.
C11_HistoryOrdered ==
    \A i \in 1 .. (Len(portfolio.history) - 1) :
        portfolio.history[i].time <= portfolio.history[i + 1].time

\* A first deposit, and after it ticks at two later times, have each made
\* their entry.
C11_Witness ==
    /\ call = Call("tick", TRUE)
    /\ Len(portfolio.history) = 3
    /\ portfolio.history[1].time >= AGED_TICKS
    /\ portfolio.history[2].time > portfolio.history[1].time
    /\ portfolio.history[3].time = clock
    /\ clock > portfolio.history[2].time

\* C12: with the bot active and the balance > 0, a tick at a time whose
\* growth exceeds the threshold raises the balance by the growth, appends
\* the one entry {now, new balance} to the history, dropping the oldest
\* entry of a full history, and sets lastUpdate to now; a history of one
\* entry becomes one of two.
C12_GrowthTick ==
    (bot.active /\ Balance(portfolio) > 0) =>
        \A now \in Times, rnd \in Draws :
            LET growth == Growth(Balance(portfolio), bot.monthlyReturn,
                                 now - bot.lastUpdate)
                after == Tick(S, now, rnd)
                entry == [time |-> now, value |-> Balance(after.portfolio)]
            IN  growth > SATOSHI_THRESHOLD =>
                    /\ Balance(after.portfolio) = Balance(portfolio) + growth
                    /\ Balance(after.portfolio) > Balance(portfolio)
                    /\ after.portfolio.history =
                           LastN(Append(portfolio.history, entry), HISTORY_LIMIT)
                    /\ after.bot.lastUpdate = now
                    /\ Len(portfolio.history) = 1 => Len(after.portfolio.history) = 2

\* One deposit into the empty state and one tick, a month later, that
\* applied growth: the history holds the deposit's entry and the tick's.
C12_Witness ==
    /\ call = Call("tick", TRUE)
    /\ Len(made) = 1
    /\ Len(portfolio.history) = 2
    /\ portfolio.history[1].value = made[1]
    /\ portfolio.history[2] = [time |-> clock, value |-> Balance(portfolio)]
    /\ clock = portfolio.history[1].time + 1
    /\ Balance(portfolio) = made[1] + (made[1] * MONTHLY_RETURN) \div 1000
    /\ bot.lastUpdate = clock

\* C13: while the bot is active with a balance > 0, the time since growth
\* was last applied is never lost: whatever handler runs (a deposit, a
\* currency toggle, a tick below the threshold, a reload), lastUpdate stays
\* where it is, until a tick applies the growth of the whole interval since
\* lastUpdate and moves it to now.
C13_ElapsedKept ==
    [][(bot.active /\ Balance(portfolio) > 0 /\ call'.op # "clear") =>
            \/ bot'.lastUpdate = bot.lastUpdate
            \/ /\ call'.op = "tick"
               /\ bot'.lastUpdate = clock'
               /\ Balance(portfolio') =
                      Balance(portfolio)
                          + Growth(Balance(portfolio), bot.monthlyReturn,
                                   clock' - bot.lastUpdate)]_vars

\* C13 as amended: while the bot is active with a balance > 0, lastUpdate
\* stays where it is across ticks below the threshold, currency toggles,
\* rejected deposits and reloads, until a tick applies the growth of the
\* whole interval since lastUpdate and moves it to now; a valid deposit is
\* the exception: it adds its amount, applies no growth and moves lastUpdate
\* to now.
C13_ElapsedKeptButDeposit ==
    [][(bot.active /\ Balance(portfolio) > 0 /\ call'.op # "clear") =>
            \/ bot'.lastUpdate = bot.lastUpdate
            \/ /\ call'.op = "tick"
               /\ bot'.lastUpdate = clock'
               /\ Balance(portfolio') =
                      Balance(portfolio)
                          + Growth(Balance(portfolio), bot.monthlyReturn,
                                   clock' - bot.lastUpdate)
            \/ /\ call' = Call("deposit", TRUE)
               /\ bot'.lastUpdate = clock'
               /\ Balance(portfolio') = Balance(portfolio) + made'[Len(made')]]_vars

\* A deposit too small to grow above the threshold in one month, and a tick
\* two months after it that applied the growth of both months, in EUR.
C13_Witness ==
    /\ call = Call("tick", TRUE)
    /\ currency = "EUR"
    /\ Len(made) = 1
    /\ Growth(made[1], bot.monthlyReturn, 1) <= SATOSHI_THRESHOLD
    /\ Len(portfolio.history) = 2
    /\ portfolio.history[2].time = portfolio.history[1].time + 2
    /\ Balance(portfolio) = made[1] + Growth(made[1], bot.monthlyReturn, 2)
    /\ bot.lastUpdate = clock

\* The trade log after one record was added to it as its newest.
Added(old, record) ==
    IF variant = "class"
    THEN LastN(Append(old, record), TradesLimit)
    ELSE FirstN(<<record>> \o old, TradesLimit)

\* The newest record of the trade log.
Newest(trades) == IF variant = "class" THEN trades[Len(trades)] ELSE trades[1]

\* C14: every valid deposit of amount a sets active and lastUpdate = now and
\* adds to trades exactly one record, of kind deposit, of amount a, with no
\* profit label.
C14_DepositRecord ==
    [][call' = Call("deposit", TRUE) =>
            /\ bot'.active
            /\ bot'.lastUpdate = clock'
            /\ Len(portfolio'.trades) > 0
            /\ portfolio'.trades = Added(portfolio.trades, Newest(portfolio'.trades))
            /\ Newest(portfolio'.trades).type = "deposit"
            /\ Newest(portfolio'.trades).amount = made'[Len(made')]
            /\ Newest(portfolio'.trades).profit = "null"]_vars

\* C14 as amended: every valid deposit of amount a sets active and
\* lastUpdate = now and adds to trades exactly one record, made at now: in
\* the object variant a deposit of amount a with no profit label, in the
\* class variant a BUY trade of a tenth of a with a true or false label.
C14_DepositRecordByVariant ==
    [][call' = Call("deposit", TRUE) =>
            /\ bot'.active
            /\ bot'.lastUpdate = clock'
            /\ Len(portfolio'.trades) > 0
            /\ portfolio'.trades = Added(portfolio.trades, Newest(portfolio'.trades))
            /\ Newest(portfolio'.trades).time = clock'
            /\ IF variant = "class"
               THEN /\ Newest(portfolio'.trades).type = "BUY"
                    /\ Newest(portfolio'.trades).amount = made'[Len(made')] \div 10
                    /\ Newest(portfolio'.trades).profit \in {"true", "false"}
               ELSE /\ Newest(portfolio'.trades).type = "deposit"
                    /\ Newest(portfolio'.trades).amount = made'[Len(made')]
                    /\ Newest(portfolio'.trades).profit = "null"]_vars

\* A deposit of the class variant has left its BUY trade, labelled
\* unprofitable, in a trade log that held trades before.
C14_Witness ==
    /\ call = Call("deposit", TRUE)
    /\ variant = "class"
    /\ Len(portfolio.trades) > 1
    /\ Newest(portfolio.trades) =
           [time |-> clock, type |-> "BUY", amount |-> made[Len(made)] \div 10,
            profit |-> "false"]
    /\ bot.active
    /\ bot.lastUpdate = clock

\* The handlers that change the state: an accepted deposit, a tick that
\* applied growth, a currency change.
Mutations == {Call("deposit", TRUE), Call("tick", TRUE), Call("setCurrency", TRUE)}

\* C15: when a deposit, a tick that applied growth (with the trade it may
\* make) or a currency change has run, the store holds the portfolio, the
\* bot state and the currency that are in memory, and a load of it at any
\* later time gives them back.
C15_Persisted ==
    call \in Mutations =>
        /\ storage = Save(S).storage
        /\ \A k \in DOMAIN storage : storage[k] # NoItem
        /\ \A now \in Times :
               LET loaded == Construct(variant, now, storage)
               IN  /\ loaded.portfolio = portfolio
                   /\ loaded.bot = bot
                   /\ loaded.currency = currency

\* A tick has applied growth and made a trade, after the currency was
\* changed, and the store holds the portfolio with that trade.
C15_Witness ==
    /\ call = Call("tick", TRUE)
    /\ currency = "EUR"
    /\ Len(portfolio.trades) > 0
    /\ Newest(portfolio.trades).type = "trade"
    /\ Newest(portfolio.trades).time = clock
    /\ storage["anomcat_portfolio"] = JSONstringify(portfolio)
    /\ storage["anomcat_currency"] = Text("EUR")

\* The deposit handler and the growth tick of the running variant over a
\* store whose setItem call number failAt throws (0: none does).
DepositCallAt(s, amount, now, random, failAt) ==
    IF variant = "class"
    THEN LET r == handleDeposit(s, amount, now, random, failAt)
         IN  [state |-> r.state, ok |-> ~r.alert]
    ELSE LET r == deposit(s, amount, now, failAt)
         IN  [state |-> r.state, ok |-> r.ret]

TickAt(s, now, rnd, failAt) ==
    IF variant = "class"
    THEN startBot(s, now, rnd, failAt)
    ELSE updatePortfolio(s, now, rnd, failAt)

\* What a handler that ran over the store whose setItem call number failAt
\* throws has in common with the same handler over a working store: the
\* portfolio and the bot state in memory, which have advanced, and the
\* items of the keys written before the call that throws; the items of the
\* other keys are the ones the store held before.
Swallowed(bad, ok, failAt) ==
    /\ bad.portfolio = ok.portfolio
    /\ bad.bot = ok.bot
    /\ bad.currency = ok.currency
    /\ ok.portfolio # portfolio
    /\ \A i \in 1 .. 3 :
           bad.storage[KeyList(variant)[i]] =
               IF i < failAt THEN ok.storage[KeyList(variant)[i]]
               ELSE storage[KeyList(variant)[i]]

\* C16: a deposit or a tick that applies growth, over a store whose write
\* throws, returns what it returns over a working store and leaves the same
\* balance, history, trades, active and lastUpdate in memory; the write that
\* threw is not made again.
C16_WriteFailureSwallowed ==
    \A failAt \in 1 .. 3 :
        /\ \A amount \in DepositInputs, random \in BOOLEAN :
               Valid(amount) =>
                   LET ok == DepositCallAt(S, amount, clock, random, 0)
                       bad == DepositCallAt(S, amount, clock, random, failAt)
                   IN  /\ bad.ok /\ ok.ok
                       /\ Swallowed(bad.state, ok.state, failAt)
        /\ \A rnd \in Draws :
               (/\ bot.active /\ Balance(portfolio) > 0
                /\ Growth(Balance(portfolio), bot.monthlyReturn, clock - bot.lastUpdate)
                       > SATOSHI_THRESHOLD) =>
                   Swallowed(TickAt(S, clock, rnd, failAt), TickAt(S, clock, rnd, 0), failAt)

\* Over a store that takes the portfolio and throws on the next key, a
\* tick has applied growth: the store holds the portfolio in memory and not
\* the time of this tick.
C16_Witness ==
    /\ call = Call("tick", TRUE)
    /\ quota = 2
    /\ bot.lastUpdate = clock
    /\ storage["anomcat_portfolio"] = JSONstringify(portfolio)
    /\ storage # Save(S).storage

\* C17: the feed list never holds more than 10 items; a feed update adds
\* the one new event at the end and, when that makes 11, drops the oldest;
\* a switch of the feed mode leaves the one new event of the new mode.
C17_FeedBounded ==
    /\ [](Len(feed) <= FEED_LIMIT)
    /\ [][call'.op = "feed" =>
            /\ Len(feed') > 0
            /\ feed'[Len(feed')].feed = currentFeed
            /\ feed' = LastN(Append(feed, feed'[Len(feed')]), FEED_LIMIT)]_vars
    /\ [][call'.op = "switchFeed" =>
            /\ Len(feed') = 1
            /\ feed'[1].feed = currentFeed'
            /\ feed'[1].text \in FeedDraws]_vars

\* A feed update has removed the oldest item of a full list, whose items
\* now differ from end to end.
C17_Witness ==
    /\ call = Call("feed", TRUE)
    /\ Len(feed) = FEED_LIMIT
    /\ currentFeed = "block"
    /\ feed[1].text # feed[FEED_LIMIT].text

\* C18: active is false until the first valid deposit, which makes it true;
\* once true it stays true through every deposit, tick, currency change and
\* reload, until clear.
C18_ActiveStays ==
    /\ [](made = <<>> => ~bot.active)
    /\ [][call' = Call("deposit", TRUE) => bot'.active]_vars
    /\ [][(bot.active /\ call'.op # "clear") => bot'.active]_vars

\* The bot, started by the first deposit of this visit, is still active
\* after a tick that applied growth and a reload of the page.
C18_Witness ==
    /\ call = Call("load", TRUE)
    /\ variant = "class"
    /\ bot.active
    /\ Len(made) = 1
    /\ grown
    /\ Len(portfolio.history) = 2
    /\ portfolio.history[1].time >= AGED_TICKS

\* C19: setCurrency(c), for the two currencies and for any other string,
\* leaves the portfolio and the bot state as they are; when c is the current
\* currency it changes nothing in memory or in the store and dispatches no
\* currencyChanged event, and otherwise the currency is c and the event is
\* dispatched.
C19_CurrencyFrame ==
    variant = "object" =>
        \A c \in Currencies \cup {"USD"} :
            LET r == setCurrency(S, c, 0)
            IN  /\ r.state.portfolio = portfolio
                /\ r.state.bot = bot
                /\ r.state.currency = c
                /\ r.changed = (c # currency)
                /\ c = currency => r.state = S

\* setCurrency was called with the currency already chosen, EUR, in a state
\* that holds a grown balance.
C19_Witness ==
    /\ call = Call("setCurrency", FALSE)
    /\ currency = "EUR"
    /\ bot.active
    /\ grown
    /\ Balance(portfolio) > 0
    /\ clock > AGED_TICKS

====
